---- MODULE Spec2Model ----
(***************************************************************************)
(* Model of the Boxcat BCAT backend                                        *)
(* (src/core/hle/service/bcat/backend/boxcat.cpp).                         *)
(*                                                                         *)
(* Every invocation of Synchronize, SynchronizeDirectory or                *)
(* GetLaunchParameter is a process that walks through the statements of    *)
(* SynchronizeInternal / GetLaunchParameter and of the                     *)
(* Client::DownloadInternal call they make.  One step is taken per access  *)
(* to state that other threads share: the staging files, the target        *)
(* directory, the HLE lock.  GetStatus shares nothing with them and is     *)
(* one step on the response it gets.                                       *)
(***************************************************************************)
EXTENDS Integers, Sequences, FiniteSets, TLC

\* ----------------------------------------------------------------- bounds

NumProcs == 2   \* invocations (worker threads / synchronous callers)
MaxLen == 1     \* longest response body, in bytes
MaxByte == 2    \* the bytes are 0..MaxByte
MaxGames == 2   \* longest "games" array of a status feed

Procs == 1..NumProcs
HostThread == NumProcs + 1     \* another holder of g_hle_lock
Free == 0                      \* g_hle_lock is not held

\* ------------------------------------------------------- program constants

Ok == 200
StatusBadClientVersion == 301
NoUpdate == 304
StatusNoMatchTitleId == 404
StatusNoMatchBuildId == 406

\* DownloadResult, by name
DownloadResults ==
    {"Success", "NoResponse", "GeneralWebError", "NoMatchTitleId", "NoMatchBuildId",
     "InvalidContentType", "GeneralFSError", "BadClientVersion"}

\* Content types are strings; a string is modelled as a sequence of tokens
\* so that std::string::find is a real substring search.
\* 1 = "application/", 2 = "zip", 3 = "octet-stream", 9 = "; charset=utf-8".
APPLICATION_ZIP == <<1, 2>>
APPLICATION_OCTET_STREAM == <<1, 3>>

\* ------------------------------------------------------------------ values

Byte == 0..MaxByte

RECURSIVE SeqsUpTo(_, _)
SeqsUpTo(S, n) ==
    IF n = 0 THEN {<<>>}
    ELSE LET shorter == SeqsUpTo(S, n - 1)
         IN  shorter \cup {Append(s, x) : s \in {t \in shorter : Len(t) = n - 1}, x \in S}

Bodies == SeqsUpTo(Byte, MaxLen)

\* A file of the host file system: absent, or a sequence of bytes.
NoFile == [exists |-> FALSE, bytes |-> <<>>]
MkFile(b) == [exists |-> TRUE, bytes |-> b]

Zeros(n) == [i \in 1..n |-> 0]

\* The two staging files of the title: GetZIPFilePath and GetBINFilePath.
Paths == {"zip", "bin"}

\* httplib responses.  got = FALSE is the null response.
NullResponse ==
    [got |-> FALSE, status |-> 0, has_content_type |-> FALSE, content_type |-> <<>>,
     body |-> <<>>]

ContentTypes == {<<1, 2>>, <<1, 2, 9>>, <<1, 3>>}

Statuses ==
    {Ok, StatusBadClientVersion, NoUpdate, StatusNoMatchTitleId, StatusNoMatchBuildId, 500}

\* The responses the remote may give.  Every status comes without a
\* content-type header and with "application/zip"; status 200 comes with
\* every content type.
Responses ==
    {NullResponse} \cup
    {[got |-> TRUE, status |-> s, has_content_type |-> FALSE, content_type |-> <<>>,
      body |-> b] : s \in Statuses, b \in Bodies} \cup
    {[got |-> TRUE, status |-> s, has_content_type |-> TRUE, content_type |-> c,
      body |-> b] : s \in Statuses, c \in {APPLICATION_ZIP}, b \in Bodies} \cup
    {[got |-> TRUE, status |-> Ok, has_content_type |-> TRUE, content_type |-> c,
      body |-> b] : c \in ContentTypes, b \in Bodies}

\* haystack.find(needle) != npos
Contains(haystack, needle) ==
    \E i \in 1..(Len(haystack) + 1) :
        /\ i + Len(needle) - 1 <= Len(haystack)
        /\ SubSeq(haystack, i, i + Len(needle) - 1) = needle

\* ------------------------------------------------------ virtual directories

\* A directory holds one optional file "f" and the optional subdirectories
\* "A" and "B", each holding one optional file.
DirNames == {"A", "B"}
Entries == {"f"} \cup DirNames
NoDir == -1     \* the subdirectory does not exist
\* For "f": 0 = no file, k > 0 = a file with content k.
\* For a subdirectory: NoDir, 0 = empty directory, k > 0 = holds a file with content k.
\* The archives hold the contents 1..MaxByte; Old is a content no archive holds.
Old == MaxByte + 1

NullDir == [null |-> TRUE, e |-> [x \in Entries |-> IF x = "f" THEN 0 ELSE NoDir]]
MkDir(f, a, b) ==
    [null |-> FALSE, e |-> [x \in Entries |-> IF x = "f" THEN f ELSE IF x = "A" THEN a ELSE b]]


\* FileSys::ExtractZIP: the bytes of the archive are its entries "A", "B" and
\* "f" in that order, byte k being an entry with content k.  An archive that
\* is empty or holds a zero byte does not decode.
ExtractZIP(bytes) ==
    IF Len(bytes) = 0 \/ \E i \in 1..Len(bytes) : bytes[i] = 0 THEN NullDir
    ELSE MkDir(IF Len(bytes) >= 3 THEN bytes[3] ELSE 0,
               bytes[1],
               IF Len(bytes) >= 2 THEN bytes[2] ELSE NoDir)

\* The entries a directory holds.
Present(dir) == {x \in Entries : IF x = "f" THEN dir.e[x] > 0 ELSE dir.e[x] # NoDir}

\* The value of entry x of dest once entry x of src has been copied over it:
\* a file is overwritten, a subdirectory is created when missing and its file
\* overwritten when the source has one.
CopiedEntry(s, d) == IF s > 0 THEN s ELSE IF d = NoDir THEN 0 ELSE d

\* dest after the entries in D were copied and the subdirectories in C were
\* created but not filled.
Merge(src, dest, D, C) ==
    [null |-> FALSE,
     e |-> [x \in Entries |->
              IF x \in D THEN CopiedEntry(src.e[x], dest.e[x])
              ELSE IF x \in C /\ dest.e[x] = NoDir THEN 0
              ELSE dest.e[x]]]

\* FileSys::VfsRawCopyD(src, dest): every outcome of the recursive copy.  It
\* copies the files first, then the subdirectories, and stops at the first
\* failure, leaving what it has copied so far.
VfsRawCopyD(src, dest) ==
    LET present == Present(src)
    IN  {[ok |-> TRUE, dest |-> Merge(src, dest, present, {})]} \cup
        {[ok |-> FALSE, dest |-> Merge(src, dest, dc[1], dc[2])] :
            dc \in {xy \in (SUBSET present) \X (SUBSET (present \cap DirNames)) :
                      /\ xy[1] # present \/ present = {}
                      /\ Cardinality(xy[2]) <= 1
                      /\ xy[1] \cap xy[2] = {}
                      /\ ("f" \in present /\ "f" \notin xy[1]) => (xy[1] = {} /\ xy[2] = {})}}

\* The same copy between two subdirectories (one level, one optional file).
VfsRawCopyDSub(s, d) ==
    {[ok |-> TRUE, v |-> IF s > 0 THEN s ELSE d], [ok |-> FALSE, v |-> d]}

\* Client::DigestFile: SHA-256 of the buffer, kept symbolic.
DigestFile(bytes) == <<"sha256", bytes>>

\* The digest header of a request: absent, or a name and a value.
NoDigest == [attached |-> FALSE, name |-> "none", value |-> <<>>]

\* IOFile::Resize(n): the file becomes n bytes long, zero-filled past its end.
ResizeTo(cur, n) == [i \in 1..n |-> IF i <= Len(cur) THEN cur[i] ELSE 0]

\* IOFile::WriteBytes of the first k bytes of data at offset 0.
WriteBytes(cur, data, k) ==
    LET n == IF Len(cur) > k THEN Len(cur) ELSE k
    IN  [i \in 1..n |-> IF i <= k THEN data[i] ELSE cur[i]]

\* ------------------------------------------------------------- status feed

\* A JSON value that is not a container, or a key that is absent.
Absent == [t |-> "absent", b |-> FALSE, s |-> ""]
Null == [t |-> "null", b |-> FALSE, s |-> ""]
Number == [t |-> "number", b |-> FALSE, s |-> ""]
Bool(x) == [t |-> "boolean", b |-> x, s |-> ""]
Str(x) == [t |-> "string", b |-> FALSE, s |-> x]

\* The value of "events" in a game entry: absent, not an array, or an array
\* of a string and a number.
EventsValues ==
    {[t |-> "absent", a |-> <<>>], [t |-> "number", a |-> <<>>],
     [t |-> "array", a |-> <<Str("e1"), Number>>]}

\* The names of the games.
GameNames == {"G1", "G2"}

\* A game entry with every key in place.
WellFormedGame(n) ==
    [t |-> "object", name |-> Str(n), header |-> Str("h"), footer |-> Str("f"),
     events |-> [t |-> "array", a |-> <<Str("e1"), Number>>]]

\* An element of "games": not an object, a well-formed entry, or an entry
\* with one key absent or of the wrong type, or without header and footer.
GameValues ==
    {[t |-> "number", name |-> Absent, header |-> Absent, footer |-> Absent,
      events |-> [t |-> "absent", a |-> <<>>]]}
    \cup {WellFormedGame(n) : n \in GameNames}
    \cup {[WellFormedGame("G1") EXCEPT !.name = v] : v \in {Absent, Number}}
    \cup {[WellFormedGame("G1") EXCEPT !.header = v] : v \in {Absent, Number}}
    \cup {[WellFormedGame("G1") EXCEPT !.footer = Absent]}
    \cup {[WellFormedGame("G2") EXCEPT !.events = e] : e \in EventsValues}
    \cup {[WellFormedGame("G1") EXCEPT !.header = Absent, !.footer = Absent]}

\* The value of "games": absent, not an array, or an array of game entries.
GamesValues ==
    {[t |-> "absent", a |-> <<>>], [t |-> "number", a |-> <<>>]} \cup
    {[t |-> "array", a |-> a] : a \in SeqsUpTo(GameValues, MaxGames)}

\* The bodies of the status feed: text that is not JSON, a JSON array, and
\* the JSON objects with any "online", "global" and "games".
MalformedBody ==
    [t |-> "malformed", online |-> Absent, global |-> Absent,
     games |-> [t |-> "absent", a |-> <<>>]]

ArrayBody == [MalformedBody EXCEPT !.t = "array"]

StatusBodies ==
    {MalformedBody, ArrayBody} \cup
    [t : {"object"},
     online : {Absent, Number, Bool(TRUE), Bool(FALSE)},
     global : {Absent, Null, Number, Str("g")},
     games : GamesValues]

\* The responses to GET /boxcat/events: none, 301, and 200 with every body.
NullStatusResponse == [got |-> FALSE, status |-> 0, body |-> MalformedBody]

StatusResponses ==
    {NullStatusResponse, [got |-> TRUE, status |-> StatusBadClientVersion, body |-> MalformedBody]}
    \cup {[got |-> TRUE, status |-> Ok, body |-> b] : b \in StatusBodies}

\* std::optional<std::string>
Nullopt == [has |-> FALSE, s |-> ""]
Some(x) == [has |-> TRUE, s |-> x]

\* EventStatus, and the slot of a name that is not in the map.
NoEntry == [present |-> FALSE, header |-> Nullopt, footer |-> Nullopt, events |-> <<>>]
EventStatus(header, footer, events) ==
    [present |-> TRUE, header |-> header, footer |-> footer, events |-> events]

\* nlohmann::json::operator[] (const) on an object: the value of the key.
\* The key being absent is undefined behaviour: the assertion aborts the
\* process, or whatever is read in its place is of some other type.
ConstIndex(v) ==
    IF v.t = "absent" THEN {[exc |-> "abort", v |-> v], [exc |-> "none", v |-> Number]}
    ELSE {[exc |-> "none", v |-> v]}

\* l.379-389: header and footer are the string, or no value.
OptionalString(v) == IF v.t = "string" THEN Some(v.s) ELSE Nullopt

\* l.391-397: the strings of the array "events", in order.
RECURSIVE EventStrings(_)
EventStrings(a) ==
    IF a = <<>> THEN <<>>
    ELSE IF Head(a).t = "string" THEN <<Head(a).s>> \o EventStrings(Tail(a))
    ELSE EventStrings(Tail(a))

\* l.377-400: one element of "games".  Each outcome is the exception that
\* ended the call ("none" if it goes on) and the map afterwards.
InsertGame(object, games) ==
    IF object.t # "object" \/ object.name.t = "absent"
    THEN {[exc |-> "none", games |-> games]}
    ELSE UNION {UNION {{
           IF h.exc # "none" THEN [exc |-> h.exc, games |-> games]
           ELSE IF f.exc # "none" THEN [exc |-> f.exc, games |-> games]
           ELSE IF e.exc # "none" THEN [exc |-> e.exc, games |-> games]
           ELSE IF object.name.t # "string" THEN [exc |-> "type_error", games |-> games]
           ELSE [exc |-> "none",
                 games |-> [games EXCEPT ![object.name.s] =
                              EventStatus(OptionalString(h.v), OptionalString(f.v),
                                          IF object.events.t = "array"
                                          THEN EventStrings(object.events.a) ELSE <<>>)]]
           : e \in ConstIndex([t |-> object.events.t, b |-> FALSE, s |-> ""])}
           : f \in ConstIndex(object.footer)}
           : h \in ConstIndex(object.header)}

\* l.376-401: the loop over "games".
RECURSIVE InsertGames(_, _)
InsertGames(a, games) ==
    IF a = <<>> THEN {[exc |-> "none", games |-> games]}
    ELSE UNION {IF o.exc # "none" THEN {o} ELSE InsertGames(Tail(a), o.games) :
                  o \in InsertGame(Head(a), games)}

\* l.357-407: GetStatus.  Each outcome is how the call ends (a StatusResult,
\* "type_error" for the exception that leaves the function, "abort") and the
\* caller's global and games afterwards.
StatusOutcomes(response, global0, games0) ==
    IF ~response.got THEN {[result |-> "Offline", global |-> global0, games |-> games0]}
    ELSE IF response.status = StatusBadClientVersion
    THEN {[result |-> "BadClientVersion", global |-> global0, games |-> games0]}
    ELSE LET json == response.body
         IN  IF json.t = "malformed"
             THEN {[result |-> "ParseError", global |-> global0, games |-> games0]}
             ELSE IF json.t # "object" \/ json.online.t # "boolean"
             THEN {[result |-> "type_error", global |-> global0, games |-> games0]}
             ELSE IF ~json.online.b
             THEN {[result |-> "Offline", global |-> global0, games |-> games0]}
             ELSE IF json.global.t \notin {"absent", "null", "string"}
             THEN {[result |-> "type_error", global |-> global0, games |-> games0]}
             ELSE LET g == IF json.global.t = "string" THEN Some(json.global.s) ELSE Nullopt
                  IN  IF json.games.t # "array"
                      THEN {[result |-> "Success", global |-> g, games |-> games0]}
                      ELSE {[result |-> IF o.exc = "none" THEN "Success" ELSE o.exc,
                             global |-> g, games |-> o.games] :
                               o \in InsertGames(json.games.a, games0)}


\* ------------------------------------------------------------------- state

VARIABLES
    remote,             \* the responses the remote gives in this run
    bcat_boxcat_local,  \* Settings::values.bcat_boxcat_local
    files,              \* the staging files, by path
    target,             \* the directory dir_getter(title_id) returns
    g_hle_lock,         \* HLE::g_hle_lock: Free or its holder
    is_syncing,         \* Boxcat::is_syncing
    crashed,            \* the process was killed by a null dereference
    pc,                 \* where each invocation stands
    op,                 \* which entry point each invocation is
    dir_name,           \* SynchronizeInternal's dir_name ("nullopt" = none)
    digest,             \* the digest header of the request being built
    response,           \* the response of the invocation's fetch
    res,                \* the DownloadResult of the invocation's fetch
    bytes,              \* the bytes read back from the staging file
    arg,                \* the boolean the pending callback will get
    cbLog,              \* the booleans the completion callback was called with
    ret,                \* what the entry point returned to its caller
    gets,               \* HTTP GETs the invocation issued
    shown,              \* error notifications the invocation raised
    fetchWrote,         \* the invocation's DownloadInternal changed its staging file
    failed,             \* the stage at which the invocation failed
    clearRet,           \* what the last Clear returned
    statusResponse,     \* the response to GetStatus's GET
    statusRet,          \* how the call of GetStatus ended
    global,             \* GetStatus's global, owned by its caller
    games               \* GetStatus's games, owned by its caller

\* What GetStatus works on; the other operations do not touch it.
statusVars == <<statusResponse, statusRet, global, games>>

vars ==
    <<remote, bcat_boxcat_local, files, target, g_hle_lock, is_syncing, crashed, pc, op, dir_name,
      digest, response, res, bytes, arg, cbLog, ret, gets, shown, fetchWrote, failed, clearRet,
      statusResponse, statusRet, global, games>>

RetNone == [tag |-> "none", value |-> <<>>]
RetTrue == [tag |-> "true", value |-> <<>>]
RetNullopt == [tag |-> "nullopt", value |-> <<>>]
RetValue(b) == [tag |-> "value", value |-> b]

\* Clear has not been called: what it returned, the subdirectories it found,
\* the deletions it attempted in order, and the one that failed (0 = none).
NoClear == [tag |-> "none", snapshot |-> {}, attempted |-> <<>>, failedAt |-> 0]

\* A response with the given status, content type and body.
Resp(status, content_type, body) ==
    [got |-> TRUE, status |-> status, has_content_type |-> TRUE,
     content_type |-> content_type, body |-> body]

\* No invocation has been made, nothing is locked.
InitCalls ==
    /\ g_hle_lock = Free
    /\ is_syncing = FALSE
    /\ crashed = FALSE
    /\ pc = [p \in Procs |-> "idle"]
    /\ op = [p \in Procs |-> "none"]
    /\ dir_name = [p \in Procs |-> "nullopt"]
    /\ digest = [p \in Procs |-> NoDigest]
    /\ response = [p \in Procs |-> NullResponse]
    /\ res = [p \in Procs |-> "none"]
    /\ bytes = [p \in Procs |-> <<>>]
    /\ arg = [p \in Procs |-> FALSE]
    /\ cbLog = [p \in Procs |-> <<>>]
    /\ ret = [p \in Procs |-> RetNone]
    /\ gets = [p \in Procs |-> 0]
    /\ shown = [p \in Procs |-> 0]
    /\ fetchWrote = [p \in Procs |-> FALSE]
    /\ failed = [p \in Procs |-> "none"]
    /\ clearRet = NoClear

\* GetStatus has not been called; its caller passes an empty map.
NoGames == [n \in GameNames |-> NoEntry]

NoStatusCall ==
    /\ statusRet = "none"
    /\ global = Nullopt
    /\ games = NoGames

\* The staging files and target directories a run may start from: no file,
\* a two-entry archive, a file left zero-filled by an interrupted download;
\* no directory, a directory without "B", a directory with both.
InitFiles == {NoFile, MkFile(<<1, 1>>), MkFile(<<0>>)}
InitTargets == {NullDir, MkDir(Old, Old, NoDir), MkDir(0, 0, Old)}

\* Overlapping invocations: both staging files hold an archive, and the
\* remote answers with one of a few responses of each kind.
Init ==
    /\ remote = {NullResponse,
                 Resp(StatusBadClientVersion, APPLICATION_ZIP, <<>>),
                 Resp(NoUpdate, APPLICATION_ZIP, <<>>),
                 Resp(StatusNoMatchTitleId, APPLICATION_ZIP, <<>>),
                 Resp(Ok, APPLICATION_ZIP, <<1>>),
                 Resp(Ok, APPLICATION_ZIP, <<MaxByte>>),
                 Resp(Ok, APPLICATION_OCTET_STREAM, <<1>>)}
    /\ bcat_boxcat_local \in BOOLEAN
    /\ files = [x \in Paths |-> MkFile(<<1, 1>>)]
    /\ target \in {NullDir, MkDir(Old, Old, NoDir)}
    /\ InitCalls
    /\ statusResponse = NullStatusResponse
    /\ NoStatusCall

\* One invocation on its own: any staging files, any target directory, any
\* response.
SoloInit ==
    /\ remote = Responses
    /\ bcat_boxcat_local \in BOOLEAN
    /\ files \in [Paths -> InitFiles]
    /\ target \in InitTargets
    /\ InitCalls
    /\ statusResponse = NullStatusResponse
    /\ NoStatusCall

\* The staging path of an invocation: zip_path (l.211) or path (l.315).
PathOf(p) == IF op[p] = "GetLaunchParameter" THEN "bin" ELSE "zip"

\* The content type DownloadDataZip / DownloadLaunchParam ask for.
ContentTypeName(p) ==
    IF op[p] = "GetLaunchParameter" THEN APPLICATION_OCTET_STREAM ELSE APPLICATION_ZIP

IsSync(p) == op[p] \in {"Synchronize", "SynchronizeDirectory"}


\* ------------------------------------------------- Client::DownloadInternal

\* Mutant of Classify: the results of 404 and 406 are exchanged.
Classify_Swapped(r, content_type_name) ==
    IF ~r.got THEN "NoResponse"
    ELSE IF r.status = NoUpdate THEN "Success"
    ELSE IF r.status = StatusBadClientVersion THEN "BadClientVersion"
    ELSE IF r.status = StatusNoMatchTitleId THEN "NoMatchBuildId"
    ELSE IF r.status = StatusNoMatchBuildId THEN "NoMatchTitleId"
    ELSE IF r.status # Ok THEN "GeneralWebError"
    ELSE IF ~r.has_content_type \/ ~Contains(r.content_type, content_type_name)
         THEN "InvalidContentType"
    ELSE "Proceed"

\* Mutant of Classify: 304 is not recognised before the body is written.
Classify_NoUpdateWrites(r, content_type_name) ==
    IF ~r.got THEN "NoResponse"
    ELSE IF r.status = StatusBadClientVersion THEN "BadClientVersion"
    ELSE IF r.status = StatusNoMatchTitleId THEN "NoMatchTitleId"
    ELSE IF r.status = StatusNoMatchBuildId THEN "NoMatchBuildId"
    ELSE IF r.status # Ok /\ r.status # NoUpdate THEN "GeneralWebError"
    ELSE IF r.status = Ok /\ (~r.has_content_type
                               \/ ~Contains(r.content_type, content_type_name))
         THEN "InvalidContentType"
    ELSE "Proceed"

\* l.146-164: the result the response alone decides, or "Proceed" when the
\* body is to be written to the staging file.
Classify(r, content_type_name) ==
    IF ~r.got THEN "NoResponse"
    ELSE IF r.status = NoUpdate THEN "Success"
    ELSE IF r.status = StatusBadClientVersion THEN "BadClientVersion"
    ELSE IF r.status = StatusNoMatchTitleId THEN "NoMatchTitleId"
    ELSE IF r.status = StatusNoMatchBuildId THEN "NoMatchBuildId"
    ELSE IF r.status # Ok THEN "GeneralWebError"
    ELSE IF ~r.has_content_type \/ ~Contains(r.content_type, content_type_name)
         THEN "InvalidContentType"
    ELSE "Proceed"

\* Mutant of ResizeLen: the file is resized one byte too long.
ResizeLen_OffByOne(r) == Len(r.body) + 1

\* l.170: the size the staging file is resized to.
ResizeLen(r) == Len(r.body)

\* The response as the caller can still refer to it once DownloadInternal has
\* returned: the body has been consumed.
Consumed(r) == [r EXCEPT !.body = <<>>]

\* Mutant of UseLocal: the flag is ignored.
UseLocal_Ignored(flag) == FALSE

\* l.203, l.289, l.317: the local-override test.
UseLocal(flag) == flag

\* l.203-212 and l.315-320: the local-override branch of an invocation.
CheckLocal(p) ==
    /\ ~crashed /\ pc[p] = "start"
    /\ IF UseLocal(bcat_boxcat_local)
       THEN IF IsSync(p)
            THEN /\ arg' = [arg EXCEPT ![p] = TRUE]
                 /\ pc' = [pc EXCEPT ![p] = "lock"]
            ELSE /\ arg' = arg
                 /\ pc' = [pc EXCEPT ![p] = "readback"]
       ELSE /\ arg' = arg
            /\ pc' = [pc EXCEPT ![p] = "headers"]
    /\ UNCHANGED statusVars
    /\ UNCHANGED <<remote, bcat_boxcat_local, files, target, g_hle_lock, is_syncing, crashed,
                   op, dir_name, digest, response, res, bytes, cbLog, ret, gets, shown,
                   fetchWrote, failed, clearRet>>

\* l.114, l.119: the name of the digest header.
DigestHeaderName(p) ==
    IF op[p] = "GetLaunchParameter" THEN "Boxcat-LaunchParam-Digest" ELSE "Boxcat-Data-Digest"

\* l.137-143: the digest header, attached when the staging file exists.  The
\* buffer is zero-initialised and the result of ReadBytes is not looked at,
\* so a read that delivers nothing digests zeros.
DigestHeader(f, digest_header_name) ==
    IF f.exists
    THEN {[attached |-> TRUE, name |-> digest_header_name,
           value |-> DigestFile(WriteBytes(Zeros(Len(f.bytes)), f.bytes, k))] :
             k \in {0, Len(f.bytes)}}
    ELSE {NoDigest}

\* l.131-143: build the request headers.
BuildHeaders(p) ==
    /\ ~crashed /\ pc[p] = "headers"
    /\ \E d \in DigestHeader(files[PathOf(p)], DigestHeaderName(p)) :
         digest' = [digest EXCEPT ![p] = d]
    /\ pc' = [pc EXCEPT ![p] = "get"]
    /\ UNCHANGED statusVars
    /\ UNCHANGED <<remote, bcat_boxcat_local, files, target, g_hle_lock, is_syncing, crashed,
                   op, dir_name, response, res, bytes, arg, cbLog, ret, gets, shown, fetchWrote,
                   failed, clearRet>>

\* l.145-164: issue the GET with those headers and classify its response.
Get(p) ==
    /\ ~crashed /\ pc[p] = "get"
    /\ digest' = [digest EXCEPT ![p] = NoDigest]
    /\ \E r \in remote :
         LET c == Classify(r, ContentTypeName(p))
         IN  IF c = "Proceed"
             THEN /\ response' = [response EXCEPT ![p] = r]
                  /\ res' = res
                  /\ pc' = [pc EXCEPT ![p] = "open"]
             ELSE /\ response' = [response EXCEPT ![p] = Consumed(r)]
                  /\ res' = [res EXCEPT ![p] = c]
                  /\ pc' = [pc EXCEPT ![p] = "fetched"]
    /\ gets' = [gets EXCEPT ![p] = @ + 1]
    /\ UNCHANGED statusVars
    /\ UNCHANGED <<remote, bcat_boxcat_local, files, target, g_hle_lock, is_syncing, crashed,
                   op, dir_name, bytes, arg, cbLog, ret, shown, fetchWrote, failed, clearRet>>

\* Mutant of OpenStaging: the staging file is not opened for writing while
\* another invocation on the same path is between its fetch and its readback.
OpenStaging_Exclusive(p) ==
    /\ ~crashed /\ pc[p] = "open"
    /\ \A q \in Procs \ {p} : PathOf(q) = PathOf(p) => pc[q] \notin {"fetched", "readback"}
    /\ \E opened \in BOOLEAN :
         IF opened
         THEN /\ files' = [files EXCEPT ![PathOf(p)] = MkFile(<<>>)]
              /\ res' = res
              /\ response' = response
              /\ pc' = [pc EXCEPT ![p] = "resize"]
         ELSE /\ files' = files
              /\ res' = [res EXCEPT ![p] = "GeneralFSError"]
              /\ response' = [response EXCEPT ![p] = Consumed(@)]
              /\ pc' = [pc EXCEPT ![p] = "fetched"]
    /\ fetchWrote' = [fetchWrote EXCEPT ![p] = @ \/ files'[PathOf(p)] # files[PathOf(p)]]
    /\ UNCHANGED statusVars
    /\ UNCHANGED <<remote, bcat_boxcat_local, target, g_hle_lock, is_syncing, crashed, op,
                   dir_name, digest, bytes, arg, cbLog, ret, gets, shown, failed, clearRet>>

\* l.166-169: CreateFullPath, then open the staging file with mode "wb",
\* which creates it or truncates it to zero length.
OpenStaging(p) ==
    /\ ~crashed /\ pc[p] = "open"
    /\ \E opened \in BOOLEAN :
         IF opened
         THEN /\ files' = [files EXCEPT ![PathOf(p)] = MkFile(<<>>)]
              /\ res' = res
              /\ response' = response
              /\ pc' = [pc EXCEPT ![p] = "resize"]
         ELSE /\ files' = files
              /\ res' = [res EXCEPT ![p] = "GeneralFSError"]
              /\ response' = [response EXCEPT ![p] = Consumed(@)]
              /\ pc' = [pc EXCEPT ![p] = "fetched"]
    /\ fetchWrote' = [fetchWrote EXCEPT ![p] = @ \/ files'[PathOf(p)] # files[PathOf(p)]]
    /\ UNCHANGED statusVars
    /\ UNCHANGED <<remote, bcat_boxcat_local, target, g_hle_lock, is_syncing, crashed, op,
                   dir_name, digest, bytes, arg, cbLog, ret, gets, shown, failed, clearRet>>

\* l.170-171: resize the open file to the length of the body.  A file that
\* was unlinked in the meantime is no longer reachable through its path.
Resize(p) ==
    /\ ~crashed /\ pc[p] = "resize"
    /\ \E resized \in BOOLEAN :
         IF resized
         THEN /\ files' = [files EXCEPT ![PathOf(p)] =
                             IF @.exists THEN MkFile(ResizeTo(@.bytes, ResizeLen(response[p])))
                             ELSE @]
              /\ res' = res
              /\ response' = response
              /\ pc' = [pc EXCEPT ![p] = "write"]
         ELSE /\ files' = files
              /\ res' = [res EXCEPT ![p] = "GeneralFSError"]
              /\ response' = [response EXCEPT ![p] = Consumed(@)]
              /\ pc' = [pc EXCEPT ![p] = "fetched"]
    /\ fetchWrote' = [fetchWrote EXCEPT ![p] = @ \/ files'[PathOf(p)] # files[PathOf(p)]]
    /\ UNCHANGED statusVars
    /\ UNCHANGED <<remote, bcat_boxcat_local, target, g_hle_lock, is_syncing, crashed, op,
                   dir_name, digest, bytes, arg, cbLog, ret, gets, shown, failed, clearRet>>

\* l.172-175: write the body; a short write is GeneralFSError.
Write(p) ==
    /\ ~crashed /\ pc[p] = "write"
    /\ LET body == response[p].body
       IN  \E k \in 0..Len(body) :
             /\ files' = [files EXCEPT ![PathOf(p)] =
                            IF @.exists THEN MkFile(WriteBytes(@.bytes, body, k)) ELSE @]
             /\ res' = [res EXCEPT ![p] = IF k # Len(body) THEN "GeneralFSError"
                                          ELSE "Success"]
    /\ pc' = [pc EXCEPT ![p] = "fetched"]
    /\ fetchWrote' = [fetchWrote EXCEPT ![p] = @ \/ files'[PathOf(p)] # files[PathOf(p)]]
    /\ UNCHANGED statusVars
    /\ UNCHANGED <<remote, bcat_boxcat_local, target, g_hle_lock, is_syncing, crashed, op,
                   dir_name, digest, response, bytes, arg, cbLog, ret, gets, shown, failed,
                   clearRet>>

\* --------------------------------------- the entry points and their workers

\* Invocation p is the p-th call of an entry point.
IsNextCall(p) == pc[p] = "idle" /\ \A q \in Procs : q < p => pc[q] # "idle"

\* Mutant of Synchronize: the worker is joined, so the call has not returned
\* when the worker starts.
Synchronize_Joins(p) ==
    /\ ~crashed /\ IsNextCall(p)
    /\ is_syncing' = TRUE
    /\ op' = [op EXCEPT ![p] = "Synchronize"]
    /\ dir_name' = [dir_name EXCEPT ![p] = "nullopt"]
    /\ pc' = [pc EXCEPT ![p] = "start"]
    /\ UNCHANGED statusVars
    /\ UNCHANGED <<remote, bcat_boxcat_local, files, target, g_hle_lock, crashed, digest,
                   response, res, bytes, arg, cbLog, ret, gets, shown, fetchWrote, failed,
                   clearRet>>

\* l.275-279: Synchronize sets is_syncing, starts a detached worker and
\* returns true.
Synchronize(p) ==
    /\ ~crashed /\ IsNextCall(p)
    /\ is_syncing' = TRUE
    /\ op' = [op EXCEPT ![p] = "Synchronize"]
    /\ dir_name' = [dir_name EXCEPT ![p] = "nullopt"]
    /\ ret' = [ret EXCEPT ![p] = RetTrue]
    /\ pc' = [pc EXCEPT ![p] = "start"]
    /\ UNCHANGED statusVars
    /\ UNCHANGED <<remote, bcat_boxcat_local, files, target, g_hle_lock, crashed, digest,
                   response, res, bytes, arg, cbLog, gets, shown, fetchWrote, failed, clearRet>>

\* l.281-286: SynchronizeDirectory does the same with a subtree name.
SynchronizeDirectory(p) ==
    /\ ~crashed /\ IsNextCall(p)
    /\ is_syncing' = TRUE
    /\ op' = [op EXCEPT ![p] = "SynchronizeDirectory"]
    /\ \E name \in DirNames : dir_name' = [dir_name EXCEPT ![p] = name]
    /\ ret' = [ret EXCEPT ![p] = RetTrue]
    /\ pc' = [pc EXCEPT ![p] = "start"]
    /\ UNCHANGED statusVars
    /\ UNCHANGED <<remote, bcat_boxcat_local, files, target, g_hle_lock, crashed, digest,
                   response, res, bytes, arg, cbLog, gets, shown, fetchWrote, failed, clearRet>>

\* l.314-315: GetLaunchParameter runs on its caller's thread.
GetLaunchParameter(p) ==
    /\ ~crashed /\ IsNextCall(p)
    /\ op' = [op EXCEPT ![p] = "GetLaunchParameter"]
    /\ pc' = [pc EXCEPT ![p] = "start"]
    /\ UNCHANGED statusVars
    /\ UNCHANGED <<remote, bcat_boxcat_local, files, target, g_hle_lock, is_syncing, crashed,
                   dir_name, digest, response, res, bytes, arg, cbLog, ret, gets, shown,
                   fetchWrote, failed, clearRet>>

\* Mutants of failure: a failure path that returns without reporting, one
\* that calls the callback without the lock_guard, and one that starts the
\* download again.
failure_NoCallback == "return"
failure_NoLock == "callback"
failure_Retry == "headers"

\* l.197-201: the failure lambda starts by taking the HLE lock.
failure == "lock"

\* Mutant of FetchSucceeded: the early return after a failed fetch is missing.
FetchSucceeded_Always(r) == TRUE

\* l.215, l.323: did the fetch succeed?
FetchSucceeded(r) == r = "Success"

\* Mutant of ShouldDelete: BadClientVersion is tested instead of NoMatchBuildId.
ShouldDelete_WrongResult(r) == r = "BadClientVersion" \/ r = "NoMatchTitleId"

\* l.218, l.326: the results after which the staging file is deleted.
ShouldDelete(r) == r = "NoMatchBuildId" \/ r = "NoMatchTitleId"

\* Mutant of ShouldDisplay: NoMatchTitleId is silenced in the place of
\* BadClientVersion, and the unknown title is shown.
ShouldDisplay_TitleId(r) ==
    ~(r = "Success" \/ r = "NoResponse" \/ r = "GeneralWebError" \/ r = "GeneralFSError"
      \/ r = "BadClientVersion" \/ r = "InvalidContentType")

\* l.92-103 HandleDownloadDisplayResult: the results shown to the user.
ShouldDisplay(r) ==
    ~(r = "Success" \/ r = "NoResponse" \/ r = "GeneralWebError" \/ r = "GeneralFSError"
      \/ r = "NoMatchTitleId" \/ r = "InvalidContentType")

\* What an invocation does when a stage fails: the worker reports false
\* through the failure lambda, GetLaunchParameter returns std::nullopt.
Fail(p, stage) ==
    /\ failed' = [failed EXCEPT ![p] = stage]
    /\ IF IsSync(p)
       THEN /\ arg' = [arg EXCEPT ![p] = FALSE]
            /\ pc' = [pc EXCEPT ![p] = failure]
            /\ ret' = ret
       ELSE /\ arg' = arg
            /\ pc' = [pc EXCEPT ![p] = "return"]
            /\ ret' = [ret EXCEPT ![p] = RetNullopt]

\* l.214-225 and l.322-332: the result of the fetch is handled; the client
\* is not used again.  After Success the response stays on record, as what
\* the fetch wrote, until the staging file has been read back.
AfterFetch(p) ==
    /\ ~crashed /\ pc[p] = "fetched"
    /\ IF FetchSucceeded(res[p])
       THEN /\ pc' = [pc EXCEPT ![p] = "readback"]
            /\ UNCHANGED <<files, shown, failed, arg, ret, response>>
       ELSE /\ files' = IF ShouldDelete(res[p]) THEN [files EXCEPT ![PathOf(p)] = NoFile]
                        ELSE files
            /\ shown' = [shown EXCEPT ![p] = IF ShouldDisplay(res[p]) THEN @ + 1 ELSE @]
            /\ Fail(p, "fetch")
            /\ response' = [response EXCEPT ![p] = NullResponse]
    /\ fetchWrote' = [fetchWrote EXCEPT ![p] = FALSE]
    /\ UNCHANGED statusVars
    /\ UNCHANGED <<remote, bcat_boxcat_local, target, g_hle_lock, is_syncing, crashed, op,
                   dir_name, digest, res, bytes, cbLog, gets, clearRet>>

\* l.227-241 and l.335-344: read the staging file back (a file that cannot
\* be opened has size 0); the worker then decodes the archive in memory.
Readback(p) ==
    /\ ~crashed /\ pc[p] = "readback"
    /\ LET f == files[PathOf(p)]
           size == IF f.exists THEN Len(f.bytes) ELSE 0
       IN  \E nread \in {0, size} :
             IF size = 0 \/ nread # size
             THEN /\ Fail(p, "readback")
                  /\ bytes' = bytes
             ELSE IF ~IsSync(p)
             THEN /\ ret' = [ret EXCEPT ![p] = RetValue(f.bytes)]
                  /\ pc' = [pc EXCEPT ![p] = "return"]
                  /\ UNCHANGED <<failed, arg, bytes>>
             ELSE IF ExtractZIP(f.bytes).null
             THEN /\ Fail(p, "extract")
                  /\ bytes' = bytes
             ELSE /\ bytes' = [bytes EXCEPT ![p] = f.bytes]
                  /\ pc' = [pc EXCEPT ![p] = "copy"]
                  /\ UNCHANGED <<failed, arg, ret>>
    /\ response' = [response EXCEPT ![p] = NullResponse]
    /\ UNCHANGED statusVars
    /\ UNCHANGED <<remote, bcat_boxcat_local, files, target, g_hle_lock, is_syncing, crashed,
                   op, dir_name, digest, res, cbLog, gets, shown, fetchWrote, clearRet>>

\* l.244-250: the full copy.  Each outcome is the target afterwards, whether
\* it succeeded, and the stage that failed.
FullCopy(extracted, dir) ==
    IF dir.null THEN {[ok |-> FALSE, dest |-> dir, stage |-> "target"]}
    ELSE {[ok |-> o.ok, dest |-> o.dest, stage |-> "copy"] : o \in VfsRawCopyD(extracted, dir)}

\* Mutant of ScopedCopy: the whole extracted tree is copied into the target
\* directory once both subtrees were found.
ScopedCopy_WholeTree(extracted, dir, name) ==
    IF dir.null THEN {[ok |-> FALSE, dest |-> dir, stage |-> "target"]}
    ELSE IF dir.e[name] = NoDir \/ extracted.e[name] = NoDir
         THEN {[ok |-> FALSE, dest |-> dir, stage |-> "subtree"]}
    ELSE {[ok |-> o.ok, dest |-> o.dest, stage |-> "copy"] : o \in VfsRawCopyD(extracted, dir)}

\* l.252-267: the copy of one named subtree.
ScopedCopy(extracted, dir, name) ==
    IF dir.null THEN {[ok |-> FALSE, dest |-> dir, stage |-> "target"]}
    ELSE IF dir.e[name] = NoDir \/ extracted.e[name] = NoDir
         THEN {[ok |-> FALSE, dest |-> dir, stage |-> "subtree"]}
    ELSE {[ok |-> o.ok, dest |-> [dir EXCEPT !.e[name] = o.v], stage |-> "copy"] :
             o \in VfsRawCopyDSub(extracted.e[name], dir.e[name])}

\* l.243-268: copy the extracted tree into the target directory.
Copy(p) ==
    /\ ~crashed /\ pc[p] = "copy"
    /\ \E o \in (IF dir_name[p] = "nullopt" THEN FullCopy(ExtractZIP(bytes[p]), target)
                 ELSE ScopedCopy(ExtractZIP(bytes[p]), target, dir_name[p])) :
         /\ target' = o.dest
         /\ IF o.ok
            THEN /\ arg' = [arg EXCEPT ![p] = TRUE]
                 /\ pc' = [pc EXCEPT ![p] = "lock"]
                 /\ UNCHANGED <<failed, ret>>
            ELSE Fail(p, o.stage)
    /\ bytes' = [bytes EXCEPT ![p] = <<>>]
    /\ UNCHANGED statusVars
    /\ UNCHANGED <<remote, bcat_boxcat_local, files, g_hle_lock, is_syncing, crashed, op,
                   dir_name, digest, response, res, cbLog, gets, shown, fetchWrote, clearRet>>

\* l.199, l.206, l.271: std::lock_guard lock{HLE::g_hle_lock}; the callback
\* then starts.
Lock(p) ==
    /\ ~crashed /\ pc[p] = "lock"
    /\ g_hle_lock = Free
    /\ g_hle_lock' = p
    /\ pc' = [pc EXCEPT ![p] = "callback"]
    /\ UNCHANGED statusVars
    /\ UNCHANGED <<remote, bcat_boxcat_local, files, target, is_syncing, crashed, op, dir_name,
                   digest, response, res, bytes, arg, cbLog, ret, gets, shown, fetchWrote,
                   failed, clearRet>>

\* The locals of an invocation end with it.
Finish(p) ==
    /\ pc' = [pc EXCEPT ![p] = "done"]
    /\ res' = [res EXCEPT ![p] = "none"]
    /\ arg' = [arg EXCEPT ![p] = FALSE]
    /\ failed' = [failed EXCEPT ![p] = "none"]

\* Mutant of Callback: the worker clears is_syncing when it ends.
Callback_ResetsFlag(p) ==
    /\ ~crashed /\ pc[p] = "callback"
    /\ cbLog' = [cbLog EXCEPT ![p] = Append(@, arg[p])]
    /\ g_hle_lock' = IF g_hle_lock = p THEN Free ELSE g_hle_lock
    /\ is_syncing' = FALSE
    /\ Finish(p)
    /\ UNCHANGED statusVars
    /\ UNCHANGED <<remote, bcat_boxcat_local, files, target, crashed, op, dir_name,
                   digest, response, bytes, ret, gets, shown, fetchWrote, clearRet>>

\* Mutant of Callback: the lock is still held when the worker ends.
Callback_KeepsLock(p) ==
    /\ ~crashed /\ pc[p] = "callback"
    /\ cbLog' = [cbLog EXCEPT ![p] = Append(@, arg[p])]
    /\ Finish(p)
    /\ UNCHANGED statusVars
    /\ UNCHANGED <<remote, bcat_boxcat_local, files, target, g_hle_lock, is_syncing, crashed,
                   op, dir_name, digest, response, bytes, ret, gets, shown, fetchWrote,
                   clearRet>>

\* l.200, l.207, l.272: callback(...) has run; the lock_guard goes out of
\* scope and the worker ends.
Callback(p) ==
    /\ ~crashed /\ pc[p] = "callback"
    /\ cbLog' = [cbLog EXCEPT ![p] = Append(@, arg[p])]
    /\ g_hle_lock' = IF g_hle_lock = p THEN Free ELSE g_hle_lock
    /\ Finish(p)
    /\ UNCHANGED statusVars
    /\ UNCHANGED <<remote, bcat_boxcat_local, files, target, is_syncing, crashed, op, dir_name,
                   digest, response, bytes, ret, gets, shown, fetchWrote, clearRet>>

\* l.331, l.341, l.344: GetLaunchParameter returns to its caller.
Return(p) ==
    /\ ~crashed /\ pc[p] = "return"
    /\ Finish(p)
    /\ UNCHANGED statusVars
    /\ UNCHANGED <<remote, bcat_boxcat_local, files, target, g_hle_lock, is_syncing, crashed,
                   op, dir_name, digest, response, bytes, cbLog, ret, gets, shown, fetchWrote,
                   clearRet>>

\* The host takes and releases HLE::g_hle_lock around its own work.
HostLock ==
    /\ ~crashed /\ g_hle_lock = Free
    /\ g_hle_lock' = HostThread
    /\ UNCHANGED statusVars
    /\ UNCHANGED <<remote, bcat_boxcat_local, files, target, is_syncing, crashed, pc, op,
                   dir_name, digest, response, res, bytes, arg, cbLog, ret, gets, shown,
                   fetchWrote, failed, clearRet>>

HostUnlock ==
    /\ ~crashed /\ g_hle_lock = HostThread
    /\ g_hle_lock' = Free
    /\ UNCHANGED statusVars
    /\ UNCHANGED <<remote, bcat_boxcat_local, files, target, is_syncing, crashed, pc, op,
                   dir_name, digest, response, res, bytes, arg, cbLog, ret, gets, shown,
                   fetchWrote, failed, clearRet>>

\* The orders in which a set of names can be enumerated.
Orders(S) ==
    {o \in [1..Cardinality(S) -> S] : \A x \in S : \E i \in 1..Cardinality(S) : o[i] = x}

\* The names in a sequence.
Range(o) == {o[i] : i \in 1..Len(o)}

\* Mutant of ClearOutcomes: the loop goes on after a deletion has failed.
ClearOutcomes_GoesOn(dir) ==
    LET dirnames == {d \in DirNames : dir.e[d] # NoDir}
    IN  {[ret |-> TRUE, attempted |-> o, failedAt |-> 0,
          dest |-> [dir EXCEPT !.e = [x \in Entries |->
                      IF x \in dirnames THEN NoDir ELSE @[x]]]] : o \in Orders(dirnames)}
        \cup
        {[ret |-> FALSE, attempted |-> oiv[1], failedAt |-> oiv[2],
          dest |-> [dir EXCEPT !.e = [x \in Entries |->
                      IF x = oiv[1][oiv[2]] THEN oiv[3]
                      ELSE IF x \in dirnames THEN NoDir
                      ELSE @[x]]]] :
            oiv \in {t \in Orders(dirnames) \X (1..Cardinality(dirnames)) \X (0..Old) :
                       t[3] \in {0, dir.e[t[1][t[2]]]}}}

\* Mutant of ClearOutcomes: the files of the directory are deleted as well.
ClearOutcomes_DeletesFiles(dir) ==
    LET dirnames == {d \in DirNames : dir.e[d] # NoDir}
    IN  {[ret |-> TRUE, attempted |-> o, failedAt |-> 0,
          dest |-> [dir EXCEPT !.e = [x \in Entries |->
                      IF x \in dirnames THEN NoDir ELSE 0]]] : o \in Orders(dirnames)}

\* l.294-306: the names of the subdirectories are snapshotted in the order
\* GetSubdirectories gives them, then deleted one by one until a deletion
\* fails; the failing deletion may have emptied its subdirectory.  Each
\* outcome is the value returned, the names DeleteSubdirectoryRecursive was
\* called with, the call that failed (0 = none) and the directory afterwards.
ClearOutcomes(dir) ==
    LET dirnames == {d \in DirNames : dir.e[d] # NoDir}
    IN  {[ret |-> TRUE, attempted |-> o, failedAt |-> 0,
          dest |-> [dir EXCEPT !.e = [x \in Entries |->
                      IF x \in dirnames THEN NoDir ELSE @[x]]]] : o \in Orders(dirnames)}
        \cup
        {[ret |-> FALSE, attempted |-> SubSeq(oiv[1], 1, oiv[2]), failedAt |-> oiv[2],
          dest |-> [dir EXCEPT !.e = [x \in Entries |->
                      IF x = oiv[1][oiv[2]] THEN oiv[3]
                      ELSE IF x \in Range(SubSeq(oiv[1], 1, oiv[2])) THEN NoDir
                      ELSE @[x]]]] :
            oiv \in {t \in Orders(dirnames) \X (1..Cardinality(dirnames)) \X (0..Old) :
                       t[3] \in {0, dir.e[t[1][t[2]]]}}}

\* l.288-307: Clear.  With the local override it does nothing; a null
\* directory is dereferenced.
Clear ==
    /\ ~crashed /\ clearRet.tag = "none"
    /\ IF UseLocal(bcat_boxcat_local)
       THEN /\ clearRet' = [NoClear EXCEPT !.tag = "true"]
            /\ UNCHANGED <<target, crashed>>
       ELSE IF target.null
       THEN /\ clearRet' = [NoClear EXCEPT !.tag = "crash"]
            /\ crashed' = TRUE
            /\ target' = target
       ELSE \E o \in ClearOutcomes(target) :
              /\ target' = o.dest
              /\ clearRet' = [tag |-> IF o.ret THEN "true" ELSE "false",
                              snapshot |-> {d \in DirNames : target.e[d] # NoDir},
                              attempted |-> o.attempted,
                              failedAt |-> o.failedAt]
              /\ crashed' = crashed
    /\ UNCHANGED statusVars
    /\ UNCHANGED <<remote, bcat_boxcat_local, files, g_hle_lock, is_syncing, pc, op, dir_name,
                   digest, response, res, bytes, arg, cbLog, ret, gets, shown, fetchWrote,
                   failed>>

\* ---------------------------------------------------------- specifications

Step(p) ==
    \/ CheckLocal(p)
    \/ BuildHeaders(p)
    \/ Get(p)
    \/ OpenStaging(p)
    \/ Resize(p)
    \/ Write(p)
    \/ AfterFetch(p)
    \/ Readback(p)
    \/ Copy(p)
    \/ Lock(p)
    \/ Callback(p)
    \/ Return(p)

\* Any number of invocations overlap.
Next ==
    \/ \E p \in Procs : Synchronize(p) \/ SynchronizeDirectory(p) \/ GetLaunchParameter(p)
    \/ \E p \in Procs : Step(p)
    \/ Clear
    \/ HostLock
    \/ HostUnlock

Spec == Init /\ [][Next]_vars

\* No invocation has been made or is in flight.
Alone == \A q \in Procs : pc[q] = "idle"
Quiescent == \A q \in Procs : pc[q] \in {"idle", "done"}

\* A single call of an entry point, from any state of the disk; Clear is
\* called before or after it.
SoloSynchronize(p) == Alone /\ Synchronize(p)
SoloSynchronizeDirectory(p) == Alone /\ SynchronizeDirectory(p)
SoloGetLaunchParameter(p) == Alone /\ GetLaunchParameter(p)
SoloClear == Quiescent /\ Clear

SoloNext ==
    \/ \E p \in Procs :
         SoloSynchronize(p) \/ SoloSynchronizeDirectory(p) \/ SoloGetLaunchParameter(p)
    \/ \E p \in Procs : Step(p)
    \/ SoloClear
    \/ HostLock
    \/ HostUnlock

SoloSpec == SoloInit /\ [][SoloNext]_vars


\* l.347-408: GetStatus, on its caller's thread; it shares nothing with the
\* other operations.
GetStatus ==
    /\ statusRet = "none"
    /\ \E o \in StatusOutcomes(statusResponse, global, games) :
         /\ statusRet' = o.result
         /\ global' = o.global
         /\ games' = o.games
    /\ UNCHANGED <<statusResponse, remote, bcat_boxcat_local, files, target, g_hle_lock,
                   is_syncing, crashed, pc, op, dir_name, digest, response, res, bytes, arg,
                   cbLog, ret, gets, shown, fetchWrote, failed, clearRet>>

\* One call of GetStatus, for any response of the remote.
StatusInit ==
    /\ remote = {NullResponse}
    /\ bcat_boxcat_local = FALSE
    /\ files = [x \in Paths |-> NoFile]
    /\ target = NullDir
    /\ InitCalls
    /\ statusResponse \in StatusResponses
    /\ NoStatusCall

StatusNext == GetStatus

StatusSpec == StatusInit /\ [][StatusNext]_vars

\* Fair scheduling: a thread that can take a step takes one; a worker waiting
\* for g_hle_lock gets it if the lock keeps becoming free; the host releases
\* the lock it holds.
Fairness ==
    /\ \A p \in Procs : WF_vars(Step(p)) /\ SF_vars(Lock(p))
    /\ WF_vars(HostUnlock)

\* Overlapping invocations under fair scheduling: the remote times out,
\* answers 404 or sends an archive.
FairInit ==
    /\ remote = {NullResponse,
                 Resp(StatusNoMatchTitleId, APPLICATION_ZIP, <<>>),
                 Resp(Ok, APPLICATION_ZIP, <<1>>)}
    /\ bcat_boxcat_local \in BOOLEAN
    /\ files = [x \in Paths |-> MkFile(<<1, 1>>)]
    /\ target \in {NullDir, MkDir(Old, Old, NoDir)}
    /\ InitCalls
    /\ statusResponse = NullStatusResponse
    /\ NoStatusCall

FairSpec == FairInit /\ [][Next]_vars /\ Fairness

\* ------------------------------------------------------------------ claims

\* The invocation has a fetch result in hand.
Fetched(p) == pc[p] = "fetched"

\* C1: the completion callback of a Synchronize or SynchronizeDirectory
\* invocation is never called more than once, and has been called exactly
\* once when its worker has finished, whichever path the worker took;
\* GetLaunchParameter has no callback.
C1_CallbackExactlyOnce ==
    \A p \in Procs :
        /\ Len(cbLog[p]) <= 1
        /\ (pc[p] = "done" /\ IsSync(p)) => Len(cbLog[p]) = 1
        /\ ~IsSync(p) => cbLog[p] = <<>>

\* A worker has finished after reporting a failure while another invocation
\* is still running.
C1_Witness ==
    \E p, q \in Procs :
        /\ pc[p] = "done" /\ IsSync(p) /\ cbLog[p] = <<FALSE>>
        /\ pc[q] \notin {"idle", "done"}

\* C2: a completion callback runs only while its worker holds g_hle_lock, so
\* never while the host holds the lock and never at the same time as the
\* callback of another synchronization.
C2_CallbackUnderLock ==
    /\ \A p \in Procs : pc[p] = "callback" => g_hle_lock = p
    /\ g_hle_lock = HostThread => \A p \in Procs : pc[p] # "callback"
    /\ \A p, q \in Procs : (p # q /\ pc[p] = "callback") => pc[q] # "callback"

\* A failure callback runs while another worker waits for the lock.
C2_Witness ==
    \E p, q \in Procs :
        /\ p # q
        /\ pc[p] = "callback" /\ arg[p] = FALSE
        /\ pc[q] = "lock"

\* The result the claim assigns to a response that does not lead to a write.
ExpectedResult(r, content_type_name) ==
    CASE ~r.got -> "NoResponse"
      [] r.got /\ r.status = 304 -> "Success"
      [] r.got /\ r.status = 301 -> "BadClientVersion"
      [] r.got /\ r.status = 404 -> "NoMatchTitleId"
      [] r.got /\ r.status = 406 -> "NoMatchBuildId"
      [] r.got /\ r.status \notin {200, 301, 304, 404, 406} -> "GeneralWebError"
      [] r.got /\ r.status = 200
         /\ (~r.has_content_type \/ ~Contains(r.content_type, content_type_name))
           -> "InvalidContentType"
      [] OTHER -> "written"

\* C3: DownloadInternal classifies every response by the claimed table; a
\* 200 response with a matching content type gives Success or GeneralFSError
\* and nothing else: GeneralFSError when the open or the resize fails or the
\* file does not end up holding the body, and Success only with the file
\* holding the whole body.
C3_StateTable ==
    \A p \in Procs :
        Fetched(p) =>
            /\ res[p] \in DownloadResults
            /\ LET e == ExpectedResult(response[p], ContentTypeName(p))
               IN  IF e = "written"
                   THEN /\ res[p] \in {"Success", "GeneralFSError"}
                        /\ res[p] = "Success"
                             => files[PathOf(p)] = MkFile(response[p].body)
                   ELSE res[p] = e

C3_WriteSteps ==
    \A p \in Procs :
        /\ (pc[p] \in {"open", "resize"} /\ Fetched(p)') => res'[p] = "GeneralFSError"
        /\ (pc[p] = "write" /\ Fetched(p)'
              /\ files'[PathOf(p)] # MkFile(response[p].body))
             => res'[p] = "GeneralFSError"

C3_Classification == []C3_StateTable /\ [][C3_WriteSteps]_vars

\* A matching 200 response ended in GeneralFSError.
C3_Witness ==
    \E p \in Procs :
        /\ Fetched(p) /\ res[p] = "GeneralFSError"
        /\ response[p].status = Ok
        /\ Contains(response[p].content_type, ContentTypeName(p))


\* C4: a fetch that ends with a result other than Success has not changed
\* its staging file.
C4_OnlySuccessWrites ==
    \A p \in Procs : (Fetched(p) /\ res[p] # "Success") => ~fetchWrote[p]

\* The response is 304, or 200 with a content type that does not contain the
\* expected one.
NoWriteResponse(p) ==
    /\ response[p].got
    /\ \/ response[p].status = 304
       \/ /\ response[p].status = 200
          /\ ~response[p].has_content_type
               \/ ~Contains(response[p].content_type, ContentTypeName(p))

\* C5: after a 304 response (Success) and after a 200 response whose content
\* type does not contain the expected one (InvalidContentType) the fetch has
\* not changed the staging file; building the headers and issuing the GET
\* never change a staging file.
C5_State ==
    \A p \in Procs :
        (Fetched(p) /\ NoWriteResponse(p)) =>
            /\ ~fetchWrote[p]
            /\ res[p] = IF response[p].status = 304 THEN "Success" ELSE "InvalidContentType"

C5_Steps ==
    \A p \in Procs : (pc[p] \in {"headers", "get"} /\ pc'[p] # pc[p]) => files' = files

C5_NoWrite == []C5_State /\ [][C5_Steps]_vars

\* A 304 response came for a staging file that exists.
C5_Witness ==
    \E p \in Procs :
        /\ Fetched(p) /\ response[p].got /\ response[p].status = 304
        /\ files[PathOf(p)].exists /\ Len(files[PathOf(p)].bytes) > 0

\* C6: when the result of the fetch is handled, for the archive and for the
\* launch parameter alike: after 404 the result is NoMatchTitleId and the
\* staging file is gone; after 406 it is NoMatchBuildId and the file is gone;
\* after 301 it is BadClientVersion and the file was neither written by the
\* fetch nor deleted; after every other result but Success the file is not
\* deleted; and nothing the invocation does afterwards changes the file.
C6_Steps ==
    \A p \in Procs :
        /\ (Fetched(p) /\ ~Fetched(p)') =>
              /\ (response[p].got /\ response[p].status = 404) =>
                    (res[p] = "NoMatchTitleId" /\ files'[PathOf(p)] = NoFile)
              /\ (response[p].got /\ response[p].status = 406) =>
                    (res[p] = "NoMatchBuildId" /\ files'[PathOf(p)] = NoFile)
              /\ (response[p].got /\ response[p].status = 301) =>
                    (res[p] = "BadClientVersion" /\ ~fetchWrote[p] /\ files' = files)
              /\ res[p] \notin {"Success", "NoMatchTitleId", "NoMatchBuildId"} =>
                    files' = files
        /\ (pc[p] \in {"lock", "callback", "return"} /\ failed[p] = "fetch"
              /\ pc'[p] # pc[p]) => files' = files

C6_DeleteOnNoMatch == [][C6_Steps]_vars

\* A 404 response was classified while the staging file exists.
C6_Witness ==
    \E p \in Procs :
        /\ Fetched(p) /\ response[p].got /\ response[p].status = 404
        /\ files[PathOf(p)].exists

\* C7: after a 200 response with a matching content type whose open, resize
\* and write all succeeded, the staging file holds exactly the body of the
\* response.
C7_FileIsBody ==
    \A p \in Procs :
        (Fetched(p) /\ res[p] = "Success" /\ response[p].status = 200)
            => files[PathOf(p)] = MkFile(response[p].body)

\* A non-empty body was written successfully.
C7_Witness ==
    \E p \in Procs :
        /\ Fetched(p) /\ res[p] = "Success" /\ response[p].status = 200
        /\ Len(response[p].body) > 0
        /\ fetchWrote[p]


\* C8 as stated: with the local override set, Synchronize calls back with
\* true, Clear returns true, GetLaunchParameter returns a value, and no GET is
\* issued.
C8_LocalAlwaysSucceeds ==
    bcat_boxcat_local =>
        /\ clearRet.tag \in {"none", "true"}
        /\ \A p \in Procs :
             /\ gets[p] = 0
             /\ (pc[p] = "done" /\ IsSync(p)) => cbLog[p] = <<TRUE>>
             /\ (pc[p] \in {"return", "done"} /\ op[p] = "GetLaunchParameter")
                  => ret[p].tag = "value"

\* C8 as amended: with the local override set no GET is issued and neither
\* the staging files nor the target directory change; Synchronize calls back
\* with true and Clear returns true; GetLaunchParameter returns the bytes of
\* the launch-parameter staging file when that file exists, is not empty and
\* is read in full, and no value otherwise.
C8_State ==
    bcat_boxcat_local =>
        /\ clearRet.tag \in {"none", "true"}
        /\ \A p \in Procs :
             /\ gets[p] = 0
             /\ (pc[p] = "done" /\ IsSync(p)) => cbLog[p] = <<TRUE>>
             /\ (pc[p] \in {"return", "done"} /\ op[p] = "GetLaunchParameter") =>
                  LET f == files["bin"]
                  IN  IF f.exists /\ Len(f.bytes) > 0
                      THEN \/ ret[p] = RetValue(f.bytes)
                           \/ ret[p] = RetNullopt /\ (pc[p] = "return" => failed[p] = "readback")
                      ELSE ret[p] = RetNullopt

C8_Steps == bcat_boxcat_local => (files' = files /\ target' = target)

C8_LocalNoNetwork == []C8_State /\ [][C8_Steps]_vars

\* With the override set, GetLaunchParameter returned no value for want of a
\* staging file, and Clear returned true.
C8_Witness ==
    /\ bcat_boxcat_local
    /\ clearRet.tag = "true"
    /\ \E p \in Procs :
         /\ pc[p] = "done" /\ op[p] = "GetLaunchParameter"
         /\ ret[p] = RetNullopt
         /\ ~files["bin"].exists

\* C9: a copy into the target directory is started only after the fetch
\* returned Success and the staging file was read back in full, was not
\* empty and decoded; an invocation that failed at the fetch, the readback or
\* the extraction goes on to report and never to the copy; and no other step
\* of an invocation changes the target directory.
C9_State ==
    \A p \in Procs :
        /\ pc[p] = "copy" =>
              /\ res[p] = "Success"
              /\ failed[p] = "none"
              /\ Len(bytes[p]) > 0
              /\ ~ExtractZIP(bytes[p]).null
        /\ (res[p] \notin {"none", "Success"} /\ pc[p] \in {"lock", "callback", "return"})
              => failed[p] = "fetch"
        /\ failed[p] \in {"fetch", "readback", "extract"}
              => pc[p] \in {"lock", "callback", "return"}

C9_Steps ==
    \A p \in Procs :
        /\ (pc[p] \notin {"idle", "done", "copy"} /\ pc'[p] # pc[p]) => target' = target
        /\ failed[p] \in {"fetch", "readback", "extract"} => pc'[p] # "copy"

C9_TargetUntouched == []C9_State /\ [][C9_Steps]_vars

\* The extraction failed while the target directory holds content.
C9_Witness ==
    \E p \in Procs :
        /\ failed[p] = "extract" /\ pc[p] = "lock"
        /\ ~target.null /\ \E x \in Entries : target.e[x] = Old

\* C10: a SynchronizeDirectory invocation for subtree X changes nothing of
\* the target directory but the entry X, and that only in its copy step; when
\* X is missing from the target or from the extracted tree the copy step
\* changes nothing and the callback is called with false.
C10_Steps ==
    \A p \in Procs :
        (op[p] = "SynchronizeDirectory" /\ pc'[p] # pc[p]) =>
            /\ target'.null = target.null
            /\ \A x \in Entries \ {dir_name[p]} : target'.e[x] = target.e[x]
            /\ pc[p] # "copy" => target' = target
            /\ (pc[p] = "copy"
                  /\ \/ target.null
                     \/ target.e[dir_name[p]] = NoDir
                     \/ ExtractZIP(bytes[p]).e[dir_name[p]] = NoDir)
                 => (target' = target /\ arg'[p] = FALSE /\ pc'[p] = "lock")
            /\ (pc[p] = "callback" /\ failed[p] \in {"target", "subtree"})
                 => cbLog'[p] = <<FALSE>>

C10_OnlySubtree == [][C10_Steps]_vars

\* The subtree was copied next to a sibling that holds older content.
C10_Witness ==
    \E p \in Procs :
        /\ op[p] = "SynchronizeDirectory" /\ pc[p] = "lock" /\ arg[p]
        /\ target.e[dir_name[p]] \in 1..MaxByte
        /\ \E x \in DirNames \ {dir_name[p]} : target.e[x] = Old

\* C11: when the request headers are built, a digest header with the name of
\* the operation (Boxcat-Data-Digest for the archive, Boxcat-LaunchParam-Digest
\* for the launch parameter) and the digest of the bytes the staging file holds
\* at that moment is attached if the file exists, and no digest header is
\* attached if it does not, as after the deletion that follows a 404 or 406.
C11_Attached ==
    \A p \in Procs :
        (pc[p] = "headers" /\ pc'[p] = "get") =>
            /\ digest'[p].attached = files[PathOf(p)].exists
            /\ digest'[p].attached => digest'[p].name = DigestHeaderName(p)

C11_Steps ==
    /\ C11_Attached
    /\ \A p \in Procs :
          (pc[p] = "headers" /\ pc'[p] = "get" /\ files[PathOf(p)].exists) =>
              digest'[p].value = DigestFile(files[PathOf(p)].bytes)

C11_DigestOfCurrentFile == [][C11_Steps]_vars

\* The order of the stages of an invocation.
StageRank(stage) ==
    CASE stage = "idle" -> 0
      [] stage = "start" -> 1
      [] stage = "headers" -> 2
      [] stage = "get" -> 3
      [] stage = "open" -> 4
      [] stage = "resize" -> 5
      [] stage = "write" -> 6
      [] stage = "fetched" -> 7
      [] stage = "readback" -> 8
      [] stage = "copy" -> 9
      [] stage \in {"lock", "return"} -> 10
      [] stage = "callback" -> 11
      [] stage = "done" -> 12

\* C12: an invocation issues at most one GET, and none with the local
\* override set; no step takes an invocation back to an earlier stage; and
\* after a fetch result other than Success the invocation goes straight to
\* reporting the failure, without a second fetch.
C12_State ==
    \A p \in Procs :
        /\ gets[p] <= 1
        /\ bcat_boxcat_local => gets[p] = 0
        /\ pc[p] \in {"idle", "start", "headers", "get"} => gets[p] = 0
        /\ failed[p] = "fetch" => pc[p] \in {"lock", "callback", "return"}

C12_Steps ==
    \A p \in Procs :
        /\ StageRank(pc'[p]) >= StageRank(pc[p])
        /\ gets'[p] # gets[p] => (pc[p] = "get" /\ gets'[p] = gets[p] + 1)
        /\ (Fetched(p) /\ res[p] # "Success" /\ ~Fetched(p)') =>
              /\ failed'[p] = "fetch"
              /\ pc'[p] \in {"lock", "return"}

C12_SingleShot == []C12_State /\ [][C12_Steps]_vars

\* A worker is about to report a failed fetch after its one GET, while
\* another invocation has finished after its own one GET.
C12_Witness ==
    \E p, q \in Procs :
        /\ p # q
        /\ pc[p] = "lock" /\ failed[p] = "fetch" /\ gets[p] = 1
        /\ pc[q] = "done" /\ gets[q] = 1

\* C13: an error notification is shown when the result of a fetch is handled
\* and the result is NoMatchBuildId or BadClientVersion, for the archive and
\* for the launch parameter alike, and at no other step and for no other
\* result; an invocation shows at most one.
C13_State ==
    \A p \in Procs :
        /\ shown[p] <= 1
        /\ (shown[p] = 1 /\ pc[p] # "done") => res[p] \in {"NoMatchBuildId", "BadClientVersion"}
        /\ (pc[p] \in {"lock", "callback", "return"}
              /\ res[p] \in {"NoMatchBuildId", "BadClientVersion"}) => shown[p] = 1

C13_Steps ==
    \A p \in Procs :
        /\ shown'[p] # shown[p] =>
              /\ Fetched(p) /\ ~Fetched(p)'
              /\ res[p] \in {"NoMatchBuildId", "BadClientVersion"}
              /\ shown'[p] = shown[p] + 1
        /\ (Fetched(p) /\ ~Fetched(p)'
              /\ res[p] \in {"Success", "NoResponse", "GeneralWebError", "GeneralFSError",
                              "NoMatchTitleId", "InvalidContentType"})
             => shown'[p] = shown[p]

C13_DisplayPolicy == []C13_State /\ [][C13_Steps]_vars

\* GetLaunchParameter has shown the notification for a blacklisted build.
C13_Witness ==
    \E p \in Procs :
        /\ op[p] = "GetLaunchParameter" /\ pc[p] = "return"
        /\ res[p] = "NoMatchBuildId" /\ shown[p] = 1

\* Clear is called with the local override off on a directory that exists.
ClearCalled ==
    /\ clearRet.tag = "none" /\ clearRet'.tag # "none"
    /\ ~bcat_boxcat_local /\ ~target.null

\* C14: Clear with the local override off returns true exactly when no
\* deletion failed, and the target directory then holds no subdirectory (and
\* nothing at all if it held only subdirectories); when a deletion fails it
\* returns false, the failed deletion is the last one it attempted, the
\* subdirectories deleted before it stay deleted, the failed one is still
\* there, and the subdirectories it had not reached are as they were.
C14_Steps ==
    ClearCalled =>
        /\ clearRet'.tag \in {"true", "false"}
        /\ clearRet'.tag = "true" <=> clearRet'.failedAt = 0
        /\ clearRet'.tag = "true" =>
              /\ \A d \in DirNames : target'.e[d] = NoDir
              /\ target.e["f"] = 0 => Present(target') = {}
        /\ clearRet'.tag = "false" =>
              LET a == clearRet'.attempted
                  k == clearRet'.failedAt
              IN  /\ k >= 1 /\ k = Len(a)
                  /\ Range(a) \subseteq clearRet'.snapshot
                  /\ target'.e[a[k]] # NoDir
                  /\ \A j \in 1..(k - 1) : target'.e[a[j]] = NoDir
                  /\ \A d \in clearRet'.snapshot \ Range(a) : target'.e[d] = target.e[d]

C14_ClearBestEffort == [][C14_Steps]_vars

\* Clear found {A, B}, deleted one of them, failed on the other and returned
\* false.
C14_Witness ==
    /\ clearRet.tag = "false"
    /\ clearRet.snapshot = {"A", "B"}
    /\ Len(clearRet.attempted) = 2
    /\ target.e[clearRet.attempted[1]] = NoDir
    /\ target.e[clearRet.attempted[2]] # NoDir

\* C20: Clear changes nothing of the target directory but subdirectories
\* that were there when it was called: the files the directory holds
\* directly are kept, and after a Clear that returns true none of those
\* subdirectories is left.
C20_Steps ==
    (clearRet.tag = "none" /\ clearRet'.tag # "none") =>
        /\ target'.null = target.null
        /\ target'.e["f"] = target.e["f"]
        /\ \A d \in DirNames : target.e[d] = NoDir => target'.e[d] = NoDir
        /\ ClearCalled =>
              /\ clearRet'.snapshot = {d \in DirNames : target.e[d] # NoDir}
              /\ clearRet'.tag = "true" => \A d \in clearRet'.snapshot : target'.e[d] = NoDir

C20_ClearKeepsFiles == [][C20_Steps]_vars

\* Clear returned true on a directory that held a file and a subdirectory:
\* the subdirectory is gone and the file is still there.
C20_Witness ==
    /\ clearRet.tag = "true"
    /\ clearRet.snapshot # {}
    /\ target.e["f"] = Old
    /\ \A d \in DirNames : target.e[d] = NoDir

\* C15: Synchronize and SynchronizeDirectory can be called whoever holds
\* g_hle_lock and whatever the workers are doing; the call returns true in
\* the step that schedules the worker, before the worker has fetched, written,
\* copied, locked or called back anything; and the value returned is true at
\* every stage of the worker.
C15_State ==
    \A p \in Procs :
        /\ (IsSync(p) /\ pc[p] # "idle") => ret[p] = RetTrue
        /\ (~crashed /\ IsNextCall(p)) =>
              (ENABLED Synchronize(p) /\ ENABLED SynchronizeDirectory(p))

C15_Steps ==
    \A p \in Procs :
        (pc[p] = "idle" /\ IsSync(p)') =>
            /\ ret'[p] = RetTrue
            /\ pc'[p] = "start"
            /\ gets' = gets /\ files' = files /\ target' = target
            /\ g_hle_lock' = g_hle_lock /\ cbLog' = cbLog

C15_Asynchronous == []C15_State /\ [][C15_Steps]_vars

\* A call has returned true while the host holds g_hle_lock and its worker
\* has not started; the worker of an earlier call waits for the lock, its
\* callback still to come.
C15_Witness ==
    \E p, q \in Procs :
        /\ p # q
        /\ g_hle_lock = HostThread
        /\ IsSync(p) /\ pc[p] = "start" /\ ret[p] = RetTrue
        /\ IsSync(q) /\ pc[q] = "lock" /\ ret[q] = RetTrue /\ cbLog[q] = <<>>

\* C18: is_syncing becomes true in every call of Synchronize and
\* SynchronizeDirectory and in no other step, and once true it stays true,
\* also when every worker has called back and ended; a call of Synchronize or
\* SynchronizeDirectory is not held back while it is true.
C18_State ==
    /\ (\E p \in Procs : IsSync(p)) => is_syncing
    /\ \A p \in Procs :
          (is_syncing /\ ~crashed /\ IsNextCall(p)) =>
              (ENABLED Synchronize(p) /\ ENABLED SynchronizeDirectory(p))

C18_Steps ==
    /\ is_syncing => is_syncing'
    /\ (\E p \in Procs : pc[p] = "idle" /\ IsSync(p)') => is_syncing'
    /\ is_syncing' # is_syncing => \E p \in Procs : pc[p] = "idle" /\ IsSync(p)'

C18_FlagNeverReset == []C18_State /\ [][C18_Steps]_vars

\* Two synchronizations were scheduled, the second while the flag was true;
\* both workers have called back and ended, and the flag is still true.
C18_Witness ==
    /\ is_syncing
    /\ \A p \in Procs : IsSync(p) /\ pc[p] = "done" /\ Len(cbLog[p]) = 1

\* C17: nothing keeps the workers apart on the staging file and the target
\* directory: every step of a worker on them can be taken wherever the other
\* invocations stand.  The readback takes the staging file as it is at that
\* moment, so a worker whose own fetch wrote a body and returned Success, and
\* which finds the file missing, truncated or holding other bytes, reports
\* failure or goes on to extract and copy bytes that are not that body.
C17_State ==
    \A q \in Procs :
        ~crashed =>
            /\ pc[q] = "open" => ENABLED OpenStaging(q)
            /\ pc[q] = "resize" => ENABLED Resize(q)
            /\ pc[q] = "write" => ENABLED Write(q)
            /\ pc[q] = "fetched" => ENABLED AfterFetch(q)
            /\ pc[q] = "readback" => ENABLED Readback(q)
            /\ pc[q] = "copy" => ENABLED Copy(q)

C17_Steps ==
    \A p \in Procs :
        (IsSync(p) /\ pc[p] = "readback" /\ pc'[p] # "readback") =>
            LET f == files[PathOf(p)]
            IN  /\ (~f.exists \/ f.bytes = <<>>) =>
                      (failed'[p] = "readback" /\ arg'[p] = FALSE /\ pc'[p] = "lock")
                /\ pc'[p] = "copy" => bytes'[p] = f.bytes
                /\ (response[p].got /\ response[p].status = Ok
                      /\ f # MkFile(response[p].body)) =>
                      \/ failed'[p] \in {"readback", "extract"} /\ arg'[p] = FALSE
                      \/ pc'[p] = "copy" /\ bytes'[p] # response[p].body

C17_NoMutualExclusion == []C17_State /\ [][C17_Steps]_vars

\* A worker whose fetch wrote a body and returned Success is about to read
\* the staging file back, and another worker has just truncated the file.
C17_Witness ==
    \E p, q \in Procs :
        /\ p # q /\ IsSync(p) /\ IsSync(q)
        /\ pc[p] = "readback" /\ res[p] = "Success"
        /\ response[p].got /\ response[p].status = Ok /\ response[p].body # <<>>
        /\ pc[q] = "resize"
        /\ files["zip"] = MkFile(<<>>)

\* C19: a worker holds g_hle_lock only while its callback runs, never while
\* it fetches, reads back, extracts, copies or shows an error; and under fair
\* scheduling every scheduled synchronization calls its callback once and
\* ends, however many others run, as long as the process lives.
C19_State ==
    \A p \in Procs :
        /\ g_hle_lock = p => pc[p] = "callback"
        /\ pc[p] \notin {"callback"} => g_hle_lock # p

C16_OnlyParseError ==
    (statusRet # "none" /\ statusResponse.got
       /\ statusResponse.status # StatusBadClientVersion) =>
        IF statusResponse.body.t = "malformed"
        THEN statusRet = "ParseError" /\ games = NoGames
        ELSE /\ statusRet \in {"Offline", "Success"}
             /\ (statusRet = "Success" /\ statusResponse.body.global.t # "string")
                  => global = Nullopt

====
